---- MODULE Spec2Model ----
(***************************************************************************)
(* memory-cleanup (src/memory-cleanup/index.ts): per-workspace analysis of *)
(* the memory subtree and move-based archival of files older than 30 days. *)
(*                                                                         *)
(* A file name is a sequence of text tokens, a path is a sequence of file  *)
(* names, and a path string (FileInfo.relativePath) is the token sequence  *)
(* of the names joined by the separator token.  Paths are relative to the  *)
(* workspace's memory directory, which is the empty path.                  *)
(*                                                                         *)
(* Every action is one filesystem call of an analyzeWorkspace invocation   *)
(* together with the JavaScript that runs when it completes, up to the     *)
(* next await.  The statistics that archival does not read (dailyLogCount, *)
(* totalSizeBytes, oldestDate, newestDate) are not carried.                *)
(***************************************************************************)
EXTENDS Integers, Sequences, FiniteSets, TLC

\* ------------------------------------------------------------------ bounds
\* Largest number of regular files in an initial memory tree.
MaxFiles == 2
\* Largest number of clock ticks during a behaviour.
MaxTicks == 1

\* ------------------------------------------------------------- time
\* The model's time unit is 1000 ms, which keeps now - 30 days inside TLC's
\* integers; mtimes and the clock are in the same unit.
DAY_IN_MS == 24 * 60 * 60
StartNow == 30 * DAY_IN_MS + 2
\* Modification times around the cutoffs the clock can produce.
MTimes == 1 .. 3

\* ------------------------------------------------------------- path strings
Sep == "/"
ARCHIVE == <<"archive">>
ARCHIVE_OLD == <<"archive", "-old">>
NOTES == <<"notes">>
LOG == <<"2024-01-15.md">>

\* String.prototype.startsWith on token sequences.
StartsWith(s, prefix) ==
  /\ Len(s) >= Len(prefix)
  /\ SubSeq(s, 1, Len(prefix)) = prefix

RECURSIVE JoinNames(_)
\* path.relative(baseDir, fullPath): the names joined by the separator.
JoinNames(p) ==
  IF Len(p) = 0 THEN <<>>
  ELSE IF Len(p) = 1 THEN p[1]
  ELSE p[1] \o <<Sep>> \o JoinNames(Tail(p))

RECURSIVE SplitAt(_, _)
\* The names of a path string: cut at every separator token.  acc is the name
\* being read.
SplitAt(s, acc) ==
  IF Len(s) = 0 THEN (IF Len(acc) = 0 THEN <<>> ELSE <<acc>>)
  ELSE IF Head(s) = Sep
    THEN (IF Len(acc) = 0 THEN <<>> ELSE <<acc>>) \o SplitAt(Tail(s), <<>>)
    ELSE SplitAt(Tail(s), Append(acc, Head(s)))

\* path.join(dir, relativePath): dir's names followed by the string's names.
PathJoin(dir, str) == dir \o SplitAt(str, <<>>)

\* path.dirname of a non-empty path.
Dirname(p) == SubSeq(p, 1, Len(p) - 1)

\* The loop without its guard: nothing is taken to lie in the archive subtree.
InArchiveSubtreeNever(relativePath) == FALSE

\* The guard with the separator left out of the prefix.
InArchiveSubtreeNoSep(relativePath) == StartsWith(relativePath, ARCHIVE)

\* The guard of the archival loop: the relative path lies in the archive subtree.
InArchiveSubtree(relativePath) ==
  \/ StartsWith(relativePath, ARCHIVE \o <<Sep>>)
  \/ relativePath = ARCHIVE

\* ------------------------------------------------------------- filesystem
\* A regular file: where it is, its mtime, and id, the identity of its content
\* (the path it had in the initial tree).
Prefixes(p) == { SubSeq(p, 1, k) : k \in 0 .. Len(p) }
ProperPrefixes(p) == { SubSeq(p, 1, k) : k \in 0 .. (Len(p) - 1) }

FilePaths(F) == { f.path : f \in F }
FileAt(F, p) == CHOOSE f \in F : f.path = p

\* fs.readdir(dir, {withFileTypes: true}): the entries directly under dir.
Readdir(F, D, dir) ==
  { [path |-> f.path, isDir |-> FALSE] : f \in { g \in F : Len(g.path) > 0 /\ Dirname(g.path) = dir } }
  \cup { [path |-> d, isDir |-> TRUE] : d \in { e \in D : Len(e) > 0 /\ Dirname(e) = dir } }

\* fs.mkdir(p, {recursive: true}) on tree (F, D) where creating a path of X is
\* denied: the error code and the directories afterwards.  The prefixes of p are
\* made top-down up to the first one that is a regular file or may not be made.
Blocked(F, D, X, q) == q \in FilePaths(F) \/ (q \notin D /\ q \in X)
Mkdirp(F, D, X, p) ==
  LET bad == { k \in 0 .. Len(p) : Blocked(F, D, X, SubSeq(p, 1, k)) }
      first == IF bad = {} THEN Len(p) + 1
               ELSE CHOOSE k \in bad : \A j \in bad : k <= j
      stop == SubSeq(p, 1, first)
  IN  [ err |-> IF bad = {} THEN ""
                ELSE IF stop \in FilePaths(F)
                  THEN (IF first = Len(p) THEN "EEXIST" ELSE "ENOTDIR")
                  ELSE "EACCES",
        dirs |-> D \cup { SubSeq(p, 1, k) : k \in 0 .. (first - 1) } ]

\* fs.rename(src, dst): the error code and the files afterwards.  A rename onto
\* an existing regular file replaces it.
Rename(F, D, X, src, dst) ==
  IF src \notin FilePaths(F) THEN [err |-> "ENOENT", files |-> F]
  ELSE IF Dirname(dst) \notin D
    THEN [err |-> IF ProperPrefixes(dst) \cap FilePaths(F) # {} THEN "ENOTDIR" ELSE "ENOENT",
          files |-> F]
  ELSE IF dst \in D THEN [err |-> "EISDIR", files |-> F]
  ELSE IF dst \in X THEN [err |-> "EACCES", files |-> F]
  ELSE [err |-> "",
        files |-> { f \in F : f.path # src /\ f.path # dst }
                  \cup { [FileAt(F, src) EXCEPT !.path = dst] }]

\* ------------------------------------------------------------- state
Tasks == {1, 2}

VARIABLES
  fsFiles,       \* workspace -> the regular files under its memory directory
  fsDirs,        \* workspace -> the directories under it (<<>> is memory itself)
  denied,        \* workspace -> the paths the process may not create
  now,           \* the last reading of the clock by Date.now()
  shouldArchive, \* process -> process.argv.includes(ARCHIVE_ARG)
  task,          \* the analyzeWorkspace invocations
  mainState,     \* process -> "awaiting" | "rendered" | "exit1"
  output,        \* process -> the AnalysisResults renderTable was given
  errorMsg       \* process -> the error main().catch reported, or ""

vars == <<fsFiles, fsDirs, denied, now, shouldArchive, task, mainState, output, errorMsg>>

Workspaces == DOMAIN fsFiles
Processes == DOMAIN mainState
TasksOf(p) == { t \in Tasks : task[t].process = p }

\* ------------------------------------------------------------- initial trees
IsProperPrefix(p, q) == Len(p) < Len(q) /\ SubSeq(q, 1, Len(p)) = p

\* No regular file lies above another node.
Consistent(S) == \A p \in S : \A q \in S : ~IsProperPrefix(p, q)

TreeShapes(paths) ==
  { S \in SUBSET paths : Cardinality(S) <= MaxFiles /\ Consistent(S) }

\* The trees of one process's workspaces in a main() run, and the richer trees
\* of a workspace that is analysed by two runs.
MainPaths == { <<LOG>>, <<NOTES, LOG>> }
RunPaths ==
  { <<LOG>>, <<NOTES, LOG>>, <<ARCHIVE, LOG>>, <<ARCHIVE_OLD, LOG>>,
    <<ARCHIVE>>, <<ARCHIVE, NOTES>> }
MainDenied == { {}, {<<ARCHIVE, NOTES>>} }
RunDenied == { {}, {<<ARCHIVE, NOTES>>}, {<<ARCHIVE, NOTES, LOG>>} }
ConcPaths == { <<LOG>>, <<NOTES, LOG>>, <<ARCHIVE, LOG>> }
ConcDenied == { {}, {<<ARCHIVE, NOTES, LOG>>} }

TreeFiles(S, m) == { [path |-> p, mtime |-> m[p], id |-> p] : p \in S }
TreeDirs(S) == UNION { ProperPrefixes(p) : p \in S } \cup {<<>>}

\* An invocation of analyzeWorkspace(w, ...) by process p, which is started once
\* the processes of after have ended.
NewTask(w, p, after) ==
  [ workspace |-> w, process |-> p, after |-> after, pc |-> "existsDir", stack |-> <<>>,
    files |-> <<>>, cutoff |-> <<>>, oldFiles |-> <<>>, idx |-> 1, moved |-> 0,
    result |-> <<>>, err |-> "" ]

\* What a workspace's memory directory can be at the start: missing, a regular
\* file, or a directory holding one of the trees.
WorkspaceStates(paths, deniedChoices) ==
  { [files |-> {}, dirs |-> {}, denied |-> {}],
    [files |-> TreeFiles({<<>>}, [p \in {<<>>} |-> 1]), dirs |-> {}, denied |-> {}] }
  \cup UNION { { [files |-> TreeFiles(S, m), dirs |-> TreeDirs(S), denied |-> X] :
                   m \in [S -> MTimes], X \in deniedChoices } :
               S \in TreeShapes(paths) }

InitState(ws, archive, tasks) ==
  /\ fsFiles = [w \in DOMAIN ws |-> ws[w].files]
  /\ fsDirs = [w \in DOMAIN ws |-> ws[w].dirs]
  /\ denied = [w \in DOMAIN ws |-> ws[w].denied]
  /\ now = StartNow
  /\ shouldArchive = archive
  /\ task = tasks
  /\ mainState = [p \in DOMAIN archive |-> "awaiting"]
  /\ output = [p \in DOMAIN archive |-> <<>>]
  /\ errorMsg = [p \in DOMAIN archive |-> ""]

\* One main() run: one process, one analyzeWorkspace per configured workspace.
Init ==
  \E ws \in [Tasks -> WorkspaceStates(MainPaths, MainDenied)] :
    \E a \in BOOLEAN :
      InitState(ws, [p \in {1} |-> a], [t \in Tasks |-> NewTask(t, 1, {})])

\* Two runs of the tool, each its own process, over the same workspace, one
\* after the other: a report or archive run, then an archive run.
InitSeq ==
  \E s \in WorkspaceStates(RunPaths, RunDenied) :
    \E a \in { f \in [Tasks -> BOOLEAN] : f[2] } :
      InitState([w \in {1} |-> s], a,
                [t \in Tasks |-> NewTask(1, t, { u \in Tasks : u < t })])

\* Two runs in archive mode over the same workspace that overlap in any way.
InitConc ==
  \E s \in WorkspaceStates(ConcPaths, ConcDenied) :
    InitState([w \in {1} |-> s], [p \in Tasks |-> TRUE],
              [t \in Tasks |-> NewTask(1, t, {})])

\* ------------------------------------------------------------- analyzeWorkspace
Top(stack) == stack[Len(stack)]

RECURSIVE Unwind(_)
\* Return from the collectFilesRecursively calls whose loop is over.
Unwind(stack) ==
  IF Len(stack) > 0 /\ Top(stack) = {}
    THEN Unwind(SubSeq(stack, 1, Len(stack) - 1))
    ELSE stack

Reject(s, code) == [s EXCEPT !.pc = "rejected", !.err = code]

Return(s, archivedCount) ==
  [s EXCEPT !.pc = "returned",
            !.result = << [ workspace |-> s.workspace, exists |-> TRUE,
                            olderThan30DaysCount |-> Len(s.oldFiles),
                            archivedCount |-> archivedCount ] >>]

\* The early return for a missing memory directory.
ReturnMissing(s) ==
  [s EXCEPT !.pc = "returned",
            !.result = << [ workspace |-> s.workspace, exists |-> FALSE,
                            olderThan30DaysCount |-> 0, archivedCount |-> 0 ] >>]

\* The classification with archival run whatever the flag says.
ClassifyAlwaysArchive(s, clock, archive) ==
  LET cutoff == clock - 30 * DAY_IN_MS
  IN  [s EXCEPT !.cutoff = <<cutoff>>,
                !.oldFiles = SelectSeq(s.files, LAMBDA f : f.mtimeMs < cutoff),
                !.pc = "mkdirArchive"]

\* After enumeration: read the clock, filter the old files, and archive or return.
Classify(s, clock, archive) ==
  LET cutoff == clock - 30 * DAY_IN_MS
      s1 == [s EXCEPT !.cutoff = <<cutoff>>,
                      !.oldFiles = SelectSeq(s.files, LAMBDA f : f.mtimeMs < cutoff)]
  IN  IF archive THEN [s1 EXCEPT !.pc = "mkdirArchive"] ELSE Return(s1, 0)

\* The head of the archival loop from index s.idx: skip the files of the archive
\* subtree; stop at the first file to move, or return moved when none is left.
LoopHead(s) ==
  LET todo == { j \in s.idx .. Len(s.oldFiles) :
                  ~InArchiveSubtree(s.oldFiles[j].relativePath) }
  IN  IF todo = {}
        THEN Return([s EXCEPT !.idx = Len(s.oldFiles) + 1], s.moved)
        ELSE [s EXCEPT !.pc = "mkdirDest",
                       !.idx = CHOOSE j \in todo : \A k \in todo : j <= k]

ArchiveDir == <<ARCHIVE>>
Destination(s) == PathJoin(ArchiveDir, s.oldFiles[s.idx].relativePath)

\* The invocation is still running: its process has not ended and no sibling
\* has rejected (Promise.all then rejects and main().catch exits the process
\* before any other callback runs).
Ended(p) == mainState[p] # "awaiting"

Alive(t) ==
  /\ ~Ended(task[t].process)
  /\ \A u \in TasksOf(task[t].process) : task[u].pc # "rejected"

\* existsDir(memoryPath), then the early return or the first readdir.
ExistsDir(t) ==
  /\ Alive(t)
  /\ task[t].pc = "existsDir"
  /\ \A p \in task[t].after : Ended(p)
  /\ task' = [task EXCEPT ![t] =
       IF <<>> \in fsDirs[task[t].workspace]
         THEN [@ EXCEPT !.pc = "enum",
                        !.stack = << {[path |-> <<>>, isDir |-> TRUE]} >>]
         ELSE ReturnMissing(@)]
  /\ UNCHANGED <<fsFiles, fsDirs, denied, now, shouldArchive, mainState, output, errorMsg>>

\* One step of collectFilesRecursively: the next entry of the innermost loop is
\* read (a directory) or stat'ed (a regular file); entries come in any order.
EnumStep(s, e, F, D) ==
  LET rest == [s.stack EXCEPT ![Len(s.stack)] = @ \ {e}]
  IN  IF e.isDir
        THEN IF e.path \in D
               THEN [s EXCEPT !.stack = Append(rest, Readdir(F, D, e.path))]
               ELSE Reject(s, "ENOENT")
        ELSE IF e.path \in FilePaths(F)
               THEN [s EXCEPT !.stack = rest,
                              !.files = Append(@, [ fullPath |-> e.path,
                                                    relativePath |-> JoinNames(e.path),
                                                    mtimeMs |-> FileAt(F, e.path).mtime ])]
               ELSE Reject(s, "ENOENT")

\* The outermost collectFilesRecursively call has returned.
EnumDone(s) == s.pc # "rejected" /\ Unwind(s.stack) = <<>>

AfterEnumStep(s, clock, archive) ==
  IF s.pc = "rejected" THEN s
  ELSE IF EnumDone(s)
    THEN Classify([s EXCEPT !.stack = <<>>], clock, archive)
    ELSE [s EXCEPT !.stack = Unwind(s.stack)]

\* The clock readings Date.now() can give: time has passed since the last one.
ClockReadings == now .. (StartNow + MaxTicks)

Enumerate(t) ==
  /\ Alive(t)
  /\ task[t].pc = "enum"
  /\ \E e \in Top(task[t].stack) :
       LET s1 == EnumStep(task[t], e, fsFiles[task[t].workspace], fsDirs[task[t].workspace])
       IN  \E clock \in IF EnumDone(s1) THEN ClockReadings ELSE {now} :
             /\ now' = clock
             /\ task' = [task EXCEPT ![t] =
                  AfterEnumStep(s1, clock, shouldArchive[task[t].process])]
  /\ UNCHANGED <<fsFiles, fsDirs, denied, shouldArchive, mainState, output, errorMsg>>

\* archiveOldFiles begins: fs.mkdir(archiveDir, {recursive: true}).
MkdirArchive(t) ==
  /\ Alive(t)
  /\ task[t].pc = "mkdirArchive"
  /\ LET w == task[t].workspace
         r == Mkdirp(fsFiles[w], fsDirs[w], denied[w], ArchiveDir)
     IN  /\ fsDirs' = [fsDirs EXCEPT ![w] = r.dirs]
         /\ task' = [task EXCEPT ![t] =
              IF r.err = "" THEN LoopHead([@ EXCEPT !.moved = 0, !.idx = 1])
              ELSE Reject(@, r.err)]
  /\ UNCHANGED <<fsFiles, denied, now, shouldArchive, mainState, output, errorMsg>>

\* fs.mkdir(path.dirname(destination), {recursive: true}), outside the try.
MkdirDest(t) ==
  /\ Alive(t)
  /\ task[t].pc = "mkdirDest"
  /\ LET w == task[t].workspace
         r == Mkdirp(fsFiles[w], fsDirs[w], denied[w], Dirname(Destination(task[t])))
     IN  /\ fsDirs' = [fsDirs EXCEPT ![w] = r.dirs]
         /\ task' = [task EXCEPT ![t] =
              IF r.err = "" THEN [@ EXCEPT !.pc = "rename"] ELSE Reject(@, r.err)]
  /\ UNCHANGED <<fsFiles, denied, now, shouldArchive, mainState, output, errorMsg>>

\* The catch with every error swallowed.
AfterRenameSwallowAll(s, code) ==
  IF code = "" THEN LoopHead([s EXCEPT !.moved = @ + 1, !.idx = @ + 1])
  ELSE LoopHead([s EXCEPT !.idx = @ + 1])

\* The count taken after the try/catch, so that a tolerated ENOENT counts too.
AfterRenameCountMissing(s, code) ==
  IF code = "" \/ code = "ENOENT"
    THEN LoopHead([s EXCEPT !.moved = @ + 1, !.idx = @ + 1])
    ELSE Reject(s, code)

\* The try/catch around fs.rename and the loop's next iteration.
AfterRename(s, code) ==
  IF code = "" THEN LoopHead([s EXCEPT !.moved = @ + 1, !.idx = @ + 1])
  ELSE IF code # "ENOENT" THEN Reject(s, code)
  ELSE LoopHead([s EXCEPT !.idx = @ + 1])

RenameFile(t) ==
  /\ Alive(t)
  /\ task[t].pc = "rename"
  /\ LET w == task[t].workspace
         r == Rename(fsFiles[w], fsDirs[w], denied[w],
                     task[t].oldFiles[task[t].idx].fullPath, Destination(task[t]))
     IN  /\ fsFiles' = [fsFiles EXCEPT ![w] = r.files]
         /\ task' = [task EXCEPT ![t] = AfterRename(@, r.err)]
  /\ UNCHANGED <<fsDirs, denied, now, shouldArchive, mainState, output, errorMsg>>

\* ------------------------------------------------------------- main
\* The i-th task of a set, in the order Promise.all keeps (that of WORKSPACES).
Nth(S, i) == CHOOSE t \in S : Cardinality({ u \in S : u < t }) = i - 1

\* Every analyzeWorkspace promise is fulfilled: main renders the results.
Render(p) ==
  /\ mainState[p] = "awaiting"
  /\ \A t \in TasksOf(p) : task[t].pc = "returned"
  /\ output' = [output EXCEPT ![p] =
       [i \in 1 .. Cardinality(TasksOf(p)) |-> task[Nth(TasksOf(p), i)].result[1]]]
  /\ mainState' = [mainState EXCEPT ![p] = "rendered"]
  /\ UNCHANGED <<fsFiles, fsDirs, denied, now, shouldArchive, task, errorMsg>>

\* One promise is rejected: Promise.all rejects, main().catch prints the error
\* and calls process.exit(1).
MainCatch(p) ==
  /\ mainState[p] = "awaiting"
  /\ \E t \in TasksOf(p) :
       /\ task[t].pc = "rejected"
       /\ errorMsg' = [errorMsg EXCEPT ![p] = task[t].err]
  /\ mainState' = [mainState EXCEPT ![p] = "exit1"]
  /\ UNCHANGED <<fsFiles, fsDirs, denied, now, shouldArchive, task, output>>

\* A sibling's filesystem call that was already handed to the thread pool when
\* the process exits may still take effect; its callback never runs.
InFlight(t) ==
  /\ ~Alive(t)
  /\ mainState[task[t].process] # "rendered"
  /\ task[t].pc \in {"mkdirArchive", "mkdirDest", "rename"}
  /\ LET w == task[t].workspace
         s == task[t]
     IN  /\ fsDirs' = [fsDirs EXCEPT ![w] =
              IF s.pc = "mkdirArchive"
                THEN Mkdirp(fsFiles[w], fsDirs[w], denied[w], ArchiveDir).dirs
              ELSE IF s.pc = "mkdirDest"
                THEN Mkdirp(fsFiles[w], fsDirs[w], denied[w], Dirname(Destination(s))).dirs
              ELSE @]
         /\ fsFiles' = [fsFiles EXCEPT ![w] =
              IF s.pc = "rename"
                THEN Rename(fsFiles[w], fsDirs[w], denied[w],
                            s.oldFiles[s.idx].fullPath, Destination(s)).files
                ELSE @]
  /\ task' = [task EXCEPT ![t].pc = "killed"]
  /\ UNCHANGED <<denied, now, shouldArchive, mainState, output, errorMsg>>

Step(t) ==
  \/ ExistsDir(t)
  \/ Enumerate(t)
  \/ MkdirArchive(t)
  \/ MkdirDest(t)
  \/ RenameFile(t)

Main ==
  \/ \E p \in Processes : Render(p)
  \/ \E p \in Processes : MainCatch(p)

Next ==
  \/ \E t \in Tasks : Step(t)
  \/ \E t \in Tasks : InFlight(t)
  \/ Main

Spec == Init /\ [][Next]_vars

\* Separate runs of the tool: no invocation has a sibling in its process.
NextRuns ==
  \/ \E t \in Tasks : Step(t)
  \/ Main

SpecSeq == InitSeq /\ [][NextRuns]_vars

SpecConc == InitConc /\ [][NextRuns]_vars

\* ------------------------------------------------------------- properties
\* The vocabulary of the properties, stated on paths and file identities, not
\* on the strings the code compares.
PathInArchive(p) == Len(p) >= 1 /\ p[1] = ARCHIVE
Returned(t) == task[t].pc = "returned"
Rejected(t) == task[t].pc = "rejected"
ResultOf(t) == task[t].result[1]
ArchiveMode(t) == shouldArchive[task[t].process]
\* The invocation got as far as computing its cutoff.
Classified(t) == task[t].cutoff # <<>>
CutoffOf(t) == task[t].cutoff[1]
\* The files of workspace 1 that began outside the archive subtree with an
\* mtime in [lo, hi).
StaleOutside(lo, hi) ==
  { f \in fsFiles[1] : ~PathInArchive(f.id) /\ lo <= f.mtime /\ f.mtime < hi }
\* Every file that began outside the archive subtree with mtime < c is at its
\* mirrored place under archive, and every other file is where it began.
LocatedAsArchived(c) ==
  \A f \in fsFiles[1] :
    f.path = IF ~PathInArchive(f.id) /\ f.mtime < c THEN <<ARCHIVE>> \o f.id ELSE f.id
\* The files an invocation still had to move from index i on.
Pending(t, i) ==
  { task[t].oldFiles[j].fullPath :
      j \in { k \in i .. Len(task[t].oldFiles) :
                ~PathInArchive(task[t].oldFiles[k].fullPath) } }
Untouched(p) == \E f \in fsFiles[1] : f.path = p /\ f.id = p

\* C1 (as stated).  Two archive runs in sequence that both complete: the first
\* reports as many moves as there were stale files outside the archive subtree,
\* and the second reports none and leaves every file where the first put it.
C1_Idempotence ==
  (Returned(1) /\ Returned(2) /\ ArchiveMode(1) /\ ArchiveMode(2) /\ ResultOf(1).exists)
    => /\ ResultOf(1).archivedCount = Cardinality(StaleOutside(0, CutoffOf(1)))
       /\ ResultOf(2).archivedCount = 0
       /\ LocatedAsArchived(CutoffOf(1))

\* C1 (amended).  Each run computes its own cutoff from the clock, so the second
\* run moves exactly the files outside the archive subtree that became stale
\* between the two cutoffs.  When there is none, the second run reports 0, does
\* not fail, and leaves every file where the first run put it.
C1_IdempotenceSameStaleSet ==
  /\ (Returned(1) /\ Returned(2) /\ ArchiveMode(1) /\ ArchiveMode(2) /\ ResultOf(1).exists)
       => /\ ResultOf(1).archivedCount = Cardinality(StaleOutside(0, CutoffOf(1)))
          /\ ResultOf(2).archivedCount =
               Cardinality(StaleOutside(CutoffOf(1), CutoffOf(2)))
          /\ StaleOutside(CutoffOf(1), CutoffOf(2)) = {}
               => /\ ResultOf(2).archivedCount = 0
                  /\ LocatedAsArchived(CutoffOf(1))
  /\ (Returned(1) /\ Rejected(2) /\ ArchiveMode(1) /\ ArchiveMode(2))
       => /\ Classified(2)
          /\ StaleOutside(CutoffOf(1), CutoffOf(2)) # {}

\* Both runs completed, the first moved a file past one already in the archive
\* subtree, and the second, with nothing newly stale, moved none.
C1_Witness ==
  /\ Returned(1) /\ Returned(2) /\ ArchiveMode(1) /\ ArchiveMode(2)
  /\ ResultOf(1).archivedCount >= 1
  /\ ResultOf(1).olderThan30DaysCount > ResultOf(1).archivedCount
  /\ ResultOf(2).archivedCount = 0
  /\ ResultOf(2).olderThan30DaysCount >= 2
  /\ CutoffOf(2) > CutoffOf(1)

\* C2 (as stated).  Once the process has ended, every workspace whose analysis
\* did not fail has its AnalysisResult in the rendered output.
C2_FailureIsolation ==
  Ended(1) =>
    \A t \in TasksOf(1) :
      ~Rejected(t) =>
        \E i \in DOMAIN output[1] : output[1][i].workspace = task[t].workspace

\* C3 (as stated).  Any two workspaces of one run classify against the same
\* cutoff.
C3_SharedCutoff ==
  \A t \in Tasks : \A u \in Tasks :
    (task[t].process = task[u].process /\ Classified(t) /\ Classified(u))
      => CutoffOf(t) = CutoffOf(u)

\* C4.  Every AnalysisResult, returned or rendered, has archivedCount <=
\* olderThan30DaysCount, and archivedCount = 0 when archive mode is off or the
\* memory path is missing or not a directory (which is what exists reports).
C4_ArchivedCountBound ==
  /\ \A t \in Tasks :
       Returned(t) =>
         /\ ResultOf(t).archivedCount <= ResultOf(t).olderThan30DaysCount
         /\ ResultOf(t).exists = (<<>> \in fsDirs[task[t].workspace])
         /\ (~ArchiveMode(t) \/ ~ResultOf(t).exists) => ResultOf(t).archivedCount = 0
  /\ \A p \in Processes : \A i \in DOMAIN output[p] :
       /\ output[p][i].archivedCount <= output[p][i].olderThan30DaysCount
       /\ (~shouldArchive[p] \/ ~output[p][i].exists) => output[p][i].archivedCount = 0

\* An archive run rendered a result that moved one file and skipped another old
\* one, while the other run, in report mode, saw an old file and moved none.
C4_Witness ==
  \E t \in Tasks : \E u \in Tasks :
    /\ Returned(t) /\ ArchiveMode(t) /\ mainState[task[t].process] = "rendered"
    /\ ResultOf(t).archivedCount >= 1
    /\ ResultOf(t).archivedCount < ResultOf(t).olderThan30DaysCount
    /\ Returned(u) /\ ~ArchiveMode(u)
    /\ ResultOf(u).olderThan30DaysCount >= 1

\* C5 (as stated).  An archival that fails hard after k >= 1 successful moves
\* still returns an AnalysisResult whose archivedCount is k.
C5_PartialCount ==
  \A t \in Tasks :
    (Rejected(t) /\ Classified(t) /\ task[t].moved >= 1)
      => /\ task[t].result # <<>>
         /\ ResultOf(t).archivedCount = task[t].moved

\* The error code the pending archival call of an invocation gets in this state.
PendingError(t) ==
  LET w == task[t].workspace
  IN  IF task[t].pc = "mkdirArchive"
        THEN Mkdirp(fsFiles[w], fsDirs[w], denied[w], ArchiveDir).err
      ELSE IF task[t].pc = "mkdirDest"
        THEN Mkdirp(fsFiles[w], fsDirs[w], denied[w], Dirname(Destination(task[t]))).err
      ELSE IF task[t].pc = "rename"
        THEN Rename(fsFiles[w], fsDirs[w], denied[w],
                    task[t].oldFiles[task[t].idx].fullPath, Destination(task[t])).err
      ELSE ""

\* C6.  A directory creation or a move of archiveOldFiles that fails with any
\* code but ENOENT rejects the invocation with that code, with no result and no
\* further count; a rejected invocation takes no further step, the files it had
\* not reached stay where they were, and the process reports the error and
\* renders no result.
C6_HardFailureAborts ==
  /\ [][\A t \in Tasks :
          (task'[t] # task[t] /\ PendingError(t) \notin {"", "ENOENT"})
            => /\ task'[t].pc = "rejected"
               /\ task'[t].err = PendingError(t)
               /\ task'[t].result = <<>>
               /\ task'[t].moved = task[t].moved
               /\ fsFiles' = fsFiles]_vars
  /\ [][\A t \in Tasks : Rejected(t) => task'[t] = task[t]]_vars
  /\ [](\A t \in Tasks :
          (Rejected(t) /\ Classified(t))
            => /\ task[t].result = <<>>
               /\ (\A u \in Tasks : u > t => task[u].moved = 0)
                    => \A q \in Pending(t, task[t].idx) : Untouched(q)
               /\ Ended(task[t].process)
                    => /\ mainState[task[t].process] = "exit1"
                       /\ errorMsg[task[t].process] = task[t].err
                       /\ output[task[t].process] = <<>>)

\* A run was denied a move after one move had succeeded, left a later old file
\* in place, and its process exited with the error.
C6_Witness ==
  \E t \in Tasks :
    /\ Rejected(t) /\ task[t].err = "EACCES"
    /\ mainState[task[t].process] = "exit1"
    /\ errorMsg[task[t].process] = "EACCES"
    /\ \E q \in Pending(t, task[t].idx + 1) : Untouched(q)

\* The later of the two runs' cutoffs.
LaterCutoff == IF CutoffOf(1) >= CutoffOf(2) THEN CutoffOf(1) ELSE CutoffOf(2)

\* C7 (as stated).  When two archive runs over one workspace overlap, no run
\* fails because a file is no longer where it was, and once both have returned
\* every stale file from outside the archive subtree is at its mirrored place
\* and the two archivedCounts add up to the number of those files.
C7_InterleavedRuns ==
  /\ \A t \in Tasks : Rejected(t) => task[t].err # "ENOENT"
  /\ (Returned(1) /\ Returned(2) /\ ResultOf(1).exists /\ ResultOf(2).exists)
       => /\ ResultOf(1).archivedCount + ResultOf(2).archivedCount
               = Cardinality(StaleOutside(0, LaterCutoff))
          /\ LocatedAsArchived(LaterCutoff)

\* C7 (amended).  A move whose source is gone neither fails the run nor counts:
\* a run is rejected with ENOENT only during its enumeration, where the stat of
\* a file the other run has just moved is not tolerated.  Once both runs have
\* returned, every stale file from outside the archive subtree is at its
\* mirrored place and the two archivedCounts add up to the number of those
\* files.
C7_InterleavedMoves ==
  /\ \A t \in Tasks : (Rejected(t) /\ task[t].err = "ENOENT") => ~Classified(t)
  /\ (Returned(1) /\ Returned(2) /\ ResultOf(1).exists /\ ResultOf(2).exists)
       => /\ ResultOf(1).archivedCount + ResultOf(2).archivedCount
               = Cardinality(StaleOutside(0, LaterCutoff))
          /\ LocatedAsArchived(LaterCutoff)

\* Both runs had the same two old files to move, each run moved one of them and
\* found the other already gone, and both returned.
C7_Witness ==
  /\ Returned(1) /\ Returned(2)
  /\ Cardinality(Pending(1, 1)) = 2
  /\ Pending(2, 1) = Pending(1, 1)
  /\ ResultOf(1).archivedCount = 1
  /\ ResultOf(2).archivedCount = 1

\* C8 (as stated).  After the first archive run has returned, every file it
\* enumerated that was stale and outside the archive subtree is at its mirrored
\* place under archive and gone from where it was, archivedCount is the number
\* of those files, and every current file is still where it was.
C8_ArchivePostcondition ==
  (Returned(1) /\ ArchiveMode(1) /\ ResultOf(1).exists /\ task[2].pc = "existsDir")
    => /\ \A j \in DOMAIN task[1].files :
            LET f == task[1].files[j]
            IN  IF f.mtimeMs < CutoffOf(1) /\ ~PathInArchive(f.fullPath)
                  THEN /\ \E g \in fsFiles[1] :
                            g.id = f.fullPath /\ g.path = <<ARCHIVE>> \o f.fullPath
                       /\ f.fullPath \notin FilePaths(fsFiles[1])
                  ELSE f.mtimeMs >= CutoffOf(1) => Untouched(f.fullPath)
       /\ ResultOf(1).archivedCount = Cardinality(Pending(1, 1))

\* C9.  A file that began in the archive subtree is never moved, so no file is
\* ever put under archive/archive; and when a run returns, every old file it
\* saw in the sibling directory archive-old is at its mirrored place under
\* archive.
C9_ArchiveExclusion ==
  /\ \A f \in fsFiles[1] :
       /\ PathInArchive(f.id) => f.path = f.id
       /\ ~(Len(f.path) >= 2 /\ f.path[1] = ARCHIVE /\ f.path[2] = ARCHIVE)
  /\ \A t \in Tasks :
       (Returned(t) /\ ArchiveMode(t)) =>
         \A q \in Pending(t, 1) :
           q[1] = ARCHIVE_OLD =>
             \E g \in fsFiles[1] : g.id = q /\ g.path = <<ARCHIVE>> \o q

\* A run returned having left an old file of the archive subtree in place and
\* moved an old file of archive-old.
C9_Witness ==
  /\ Returned(1) /\ ArchiveMode(1)
  /\ ResultOf(1).archivedCount = 1
  /\ \E j \in DOMAIN task[1].oldFiles : PathInArchive(task[1].oldFiles[j].fullPath)
  /\ \E g \in fsFiles[1] :
       g.id = <<ARCHIVE_OLD, LOG>> /\ g.path = <<ARCHIVE, ARCHIVE_OLD, LOG>>
  /\ Untouched(<<ARCHIVE, LOG>>)

\* C10 (as stated).  Every file the first run enumerated still exists somewhere
\* under the memory directory: archival destroys no file.
C10_NoFileLost ==
  \A j \in DOMAIN task[1].files :
    \E g \in fsFiles[1] : g.id = task[1].files[j].fullPath

====
